---- MODULE Spec2Model ----
(***************************************************************************)
(* AI-call resilience layer of la_consulta's backend:                      *)
(*   backend/app/circuit_breaker.py   CircuitBreaker                       *)
(*   backend/app/services/llm.py      generate_text and its helpers        *)
(*   backend/app/rate_limiter.py      TokenBucket / RateLimiter            *)
(*   backend/app/routers/ai.py        the /api/ai endpoints                *)
(*   backend/app/middleware.py        CircuitBreaker of /api/gemini        *)
(*   backend/app/routers/gemini.py    generate_content                     *)
(* Time is the UTC clock read by datetime.now(), in whole seconds.         *)
(* A Python str is a sequence of one-character strings, so that substring  *)
(* tests, f-strings and parsing are computed on the characters.            *)
(***************************************************************************)
EXTENDS Integers, Sequences, FiniteSets, TLC

\* ------------------------------------------------------------------------
\* Bounds of the model
\* ------------------------------------------------------------------------
\* the rate limiter's clock runs from 0 to MaxNow seconds
MaxNow == 90
\* a breaker's clock runs from 0 to MaxSlack seconds past its timeout
MaxSlack == 3
\* constructor arguments explored for CircuitBreaker(failure_threshold, ...)
MaxFailureThreshold == 3
MaxSuccessThreshold == 2
\* failing calls are no longer issued once failure_count has reached this
MaxFailureCount == 5
\* callers of one breaker
NumCallers == 1
\* tokens_per_minute and tokens arguments explored for check_rate_limit
MaxRate == 2
MaxCost == 2
\* seconds between two readings of the clock by the rate limiter
RLStep == 10
\* APIRequest rows committed by /api/gemini/generate
MaxRows == 6

Callers == 1..NumCallers

\* timeout arguments explored: a short one, and the 60 s of the scenario
\* and of gemini_circuit_breaker
Timeouts == {2, 60}

\* keys of the rate limiter ("ai:<user id>")
Keys == {"u1", "u2"}
\* the key whose calls are followed one after the other under a clock
RLKeys == {"u1"}
\* threads calling check_rate_limit at the same time
NumThreads == 2
Threads == 1..NumThreads
\* callers of one CircuitBreaker whose calls overlap
NumTasks == 2
Tasks == 1..NumTasks

\* ------------------------------------------------------------------------
\* Text constants
\* ------------------------------------------------------------------------
\* the backquote character (a string literal cannot hold it)
BQ == "backquote"
\* str(provider), as f-strings format it
S_gemini ==
    <<"g","e","m","i","n","i">>
S_anthropic ==
    <<"a","n","t","h","r","o","p","i","c">>
\* str(None)
S_None ==
    <<"N","o","n","e">>
\* is_retryable_error: retryable_patterns (llm.py 137-142)
\* the detail of the circuit-open error (circuit_breaker.py 100, 135)
S_CircuitOpen ==
    <<"S","e","r","v","i","c","e"," ","t","e","m","p","o","r","a","r","i",
      "l","y"," ","u","n","a","v","a","i","l","a","b","l","e","."," ","C",
      "i","r","c","u","i","t"," ","b","r","e","a","k","e","r"," ","i","s",
      " ","O","P","E","N","."," ","T","r","y"," ","a","g","a","i","n"," ",
      "i","n"," ">>
S_Seconds ==
    <<" ","s","e","c","o","n","d","s",".">>
\* the detail of the rate-limit error (rate_limiter.py 51)
\* the details of the errors raised by the endpoints of routers/ai.py
\* str() of the exceptions raised inside an endpoint's try block:
\* binascii.Error of b64decode, TypeError of `**result` on a value that is
\* no dict, and pydantic's ValidationError (its message is not spelled out)
\* str(HTTPException): status code, colon, detail
\* the details of the errors of middleware.py 79 and routers/gemini.py 33, 81
\* pieces of the error details built by generate_text (llm.py 227-267)
S_InvalidJSON ==
    <<"I","n","v","a","l","i","d"," ","J","S","O","N"," ","r","e","s","p",
      "o","n","s","e",":"," ">>
S_GenFailed ==
    <<"A","I"," ","g","e","n","e","r","a","t","i","o","n"," ","f","a","i",
      "l","e","d"," ","(">>
S_ParenColon ==
    <<")",":"," ">>
S_AllFailed ==
    <<"A","l","l"," ","A","I"," ","p","r","o","v","i","d","e","r","s"," ",
      "f","a","i","l","e","d","."," ","P","r","i","m","a","r","y"," ","(">>
S_DotFallback ==
    <<"."," ","F","a","l","l","b","a","c","k"," ","(">>
S_NoProviders ==
    <<"N","o"," ","A","I"," ","p","r","o","v","i","d","e","r","s"," ","a",
      "v","a","i","l","a","b","l","e">>
\* messages of json.JSONDecodeError (json.decoder, json.scanner)
J_ExpectingValue ==
    <<"E","x","p","e","c","t","i","n","g"," ","v","a","l","u","e">>
J_ExpectingName ==
    <<"E","x","p","e","c","t","i","n","g"," ","p","r","o","p","e","r","t",
      "y"," ","n","a","m","e"," ","e","n","c","l","o","s","e","d"," ","i",
      "n"," ","d","o","u","b","l","e"," ","q","u","o","t","e","s">>
J_ExpectingColon ==
    <<"E","x","p","e","c","t","i","n","g"," ","'",":","'"," ","d","e","l",
      "i","m","i","t","e","r">>
J_ExpectingComma ==
    <<"E","x","p","e","c","t","i","n","g"," ","'",",","'"," ","d","e","l",
      "i","m","i","t","e","r">>
J_ExtraData ==
    <<"E","x","t","r","a"," ","d","a","t","a">>
J_Unterminated ==
    <<"U","n","t","e","r","m","i","n","a","t","e","d"," ","s","t","r","i",
      "n","g"," ","s","t","a","r","t","i","n","g"," ","a","t">>
J_ControlChar ==
    <<"I","n","v","a","l","i","d"," ","c","o","n","t","r","o","l"," ","c",
      "h","a","r","a","c","t","e","r"," ","a","t">>
J_line ==
    <<":"," ","l","i","n","e"," ">>
J_column ==
    <<" ","c","o","l","u","m","n"," ">>
J_char ==
    <<" ","(","c","h","a","r"," ">>
J_close ==
    <<")">>
\* messages of the exceptions a provider SDK call raises
E_Quota ==
    <<"4","2","9"," ","Q","u","o","t","a"," ","e","x","c","e","e","d","e",
      "d">>
E_Timeout ==
    <<"D","e","a","d","l","i","n","e"," ","E","x","c","e","e","d","e","d">>
E_BadKey ==
    <<"4","0","1"," ","A","P","I"," ","k","e","y"," ","n","o","t"," ","v",
      "a","l","i","d">>
\* texts a provider returns
T_Object ==
    <<"{","\"","a","\"",":","1","}">>
T_Empty ==
    <<"{","}">>
T_Fenced ==
    <<BQ,BQ,BQ,"j","s","o","n","\n","{","\"","a","\"",":","1","}","\n",
      BQ,BQ,BQ>>
T_Prose ==
    <<"o","k"," ","{","\"","a","\"",":","1","}"," ","x">>
T_Plain ==
    <<"h","i">>
T_Broken ==
    <<"{","\"","a","\"",":","1">>
\* serializations of JSON objects, other JSON texts, and prose put around
\* them in a provider's answer
D_String ==
    <<"{","\"","a","\"",":","\"","x","\"","}">>
D_Number ==
    <<"1">>
D_Null ==
    <<"n","u","l","l">>
D_Quoted ==
    <<"\"","h","i","\"">>
R_Here ==
    <<"H","e","r","e"," ","i","s"," ","t","h","e"," ","J","S","O","N",":",
      " ">>
R_Draft ==
    <<"s","e","e"," ","{","x","}",":"," ">>
R_Done ==
    <<" ","D","o","n","e",".">>
R_Smile ==
    <<" ",":","-","}">>
S_json ==
    <<"j","s","o","n">>
\* JSON literals
L_null ==
    <<"n","u","l","l">>
L_true ==
    <<"t","r","u","e">>
L_false ==
    <<"f","a","l","s","e">>
\* ------------------------------------------------------------------------
\* Python str values are sequences of one-character strings
\* ------------------------------------------------------------------------
UpperCase ==
    <<"A","B","C","D","E","F","G","H","I","J","K","L","M",
      "N","O","P","Q","R","S","T","U","V","W","X","Y","Z">>
LowerCase ==
    <<"a","b","c","d","e","f","g","h","i","j","k","l","m",
      "n","o","p","q","r","s","t","u","v","w","x","y","z">>
DigitChars ==
    <<"0","1","2","3","4","5","6","7","8","9">>

\* characters removed by str.strip() and skipped by the JSON decoder
Whitespace == {" ", "\n", "\t", "\r"}

\* str.lower()
lower(s) ==
    [i \in 1..Len(s) |->
        IF \E k \in 1..26 : UpperCase[k] = s[i]
        THEN LowerCase[CHOOSE k \in 1..26 : UpperCase[k] = s[i]]
        ELSE s[i]]

\* `p in s`
Contains(s, p) ==
    \E i \in 0..(Len(s) - Len(p)) : SubSeq(s, i + 1, i + Len(p)) = p

\* str.startswith
startswith(s, p) ==
    Len(s) >= Len(p) /\ SubSeq(s, 1, Len(p)) = p

\* str.strip()
strip(s) ==
    LET keep == {i \in 1..Len(s) : s[i] \notin Whitespace} IN
    IF keep = {} THEN <<>>
    ELSE SubSeq(s, CHOOSE i \in keep : \A j \in keep : i <= j,
                   CHOOSE i \in keep : \A j \in keep : i >= j)

\* str.find(ch) and str.rfind(ch): 0-based index, -1 when absent
find(s, ch) ==
    LET at == {i \in 1..Len(s) : s[i] = ch} IN
    IF at = {} THEN -1 ELSE (CHOOSE i \in at : \A j \in at : i <= j) - 1

rfind(s, ch) ==
    LET at == {i \in 1..Len(s) : s[i] = ch} IN
    IF at = {} THEN -1 ELSE (CHOOSE i \in at : \A j \in at : i >= j) - 1

\* str.split(sep) for a one-character separator
RECURSIVE split(_, _)
split(s, sep) ==
    LET k == find(s, sep) IN
    IF k = -1 THEN <<s>>
    ELSE <<SubSeq(s, 1, k)>> \o split(SubSeq(s, k + 2, Len(s)), sep)

\* sep.join(lines)
RECURSIVE join(_, _)
join(sep, lines) ==
    IF lines = <<>> THEN <<>>
    ELSE IF Len(lines) = 1 THEN lines[1]
    ELSE lines[1] \o <<sep>> \o join(sep, Tail(lines))

\* str(n) of a natural number
RECURSIVE str_int(_)
str_int(n) ==
    IF n < 10 THEN <<DigitChars[n + 1]>>
    ELSE str_int(n \div 10) \o <<DigitChars[(n % 10) + 1]>>

\* ------------------------------------------------------------------------
\* json.loads, for documents over the characters  { } " : , digits letters
\* space newline (no arrays, escapes, signs, fractions or exponents).
\* Indices are 0-based as in json.decoder; a scan yields
\*   kind "ok"   : the value and the index after it,
\*   kind "stop" : StopIteration(end),
\*   kind "err"  : JSONDecodeError(msg, doc, end).
\* A dict is a function from keys to values, so a repeated key keeps the
\* last value and key order does not matter.
\* ------------------------------------------------------------------------
ScanOk(v, e) == [kind |-> "ok", val |-> v, end |-> e, msg |-> <<>>]
ScanStop(e) == [kind |-> "stop", val |-> <<>>, end |-> e, msg |-> <<>>]
ScanErr(m, e) == [kind |-> "err", val |-> <<>>, end |-> e, msg |-> m]

\* s[i:i+1]
At(s, i) == IF i < Len(s) THEN s[i + 1] ELSE ""

\* s[i:j]
slice(s, i, j) == SubSeq(s, i + 1, IF j < Len(s) THEN j ELSE Len(s))

\* WHITESPACE.match(s, i).end()
RECURSIVE skip_ws(_, _)
skip_ws(s, i) ==
    IF i < Len(s) /\ s[i + 1] \in Whitespace THEN skip_ws(s, i + 1) ELSE i

\* scanstring(s, end): end is the index after the opening quote
scanstring(s, end) ==
    LET stops == {j \in end..(Len(s) - 1) :
                     s[j + 1] = "\"" \/ s[j + 1] \in {"\n", "\t", "\r"}} IN
    IF stops = {} THEN ScanErr(J_Unterminated, end - 1)
    ELSE LET j == CHOOSE x \in stops : \A y \in stops : x <= y IN
         IF s[j + 1] = "\""
         THEN ScanOk([t |-> "str", v |-> SubSeq(s, end + 1, j)], j + 1)
         ELSE ScanErr(J_ControlChar, j)

\* the integer matched by NUMBER_RE at idx
RECURSIVE scan_digits(_, _, _)
scan_digits(s, i, acc) ==
    IF i < Len(s) /\ \E d \in 1..10 : DigitChars[d] = s[i + 1]
    THEN scan_digits(s, i + 1,
             acc * 10 + (CHOOSE d \in 1..10 : DigitChars[d] = s[i + 1]) - 1)
    ELSE ScanOk([t |-> "int", v |-> acc], i)

RECURSIVE scan_once(_, _)
RECURSIVE JSONObject(_, _)
RECURSIVE object_pairs(_, _, _)

\* json.scanner: scan_once(string, idx)
scan_once(s, idx) ==
    IF idx >= Len(s) THEN ScanStop(idx)
    ELSE LET nextchar == s[idx + 1] IN
         IF nextchar = "\"" THEN scanstring(s, idx + 1)
         ELSE IF nextchar = "{" THEN JSONObject(s, idx + 1)
         ELSE IF nextchar = "n" /\ slice(s, idx, idx + 4) = L_null
              THEN ScanOk([t |-> "null", v |-> <<>>], idx + 4)
         ELSE IF nextchar = "t" /\ slice(s, idx, idx + 4) = L_true
              THEN ScanOk([t |-> "bool", v |-> <<"T">>], idx + 4)
         ELSE IF nextchar = "f" /\ slice(s, idx, idx + 5) = L_false
              THEN ScanOk([t |-> "bool", v |-> <<"F">>], idx + 5)
         ELSE IF nextchar = "0"
              THEN ScanOk([t |-> "int", v |-> 0], idx + 1)
         ELSE IF \E d \in 2..10 : DigitChars[d] = nextchar
              THEN scan_digits(s, idx, 0)
         ELSE ScanStop(idx)

\* json.decoder: JSONObject((s, end), ...): end is the index after "{"
JSONObject(s, end) ==
    LET end1 == IF At(s, end) # "\"" THEN skip_ws(s, end) ELSE end IN
    IF At(s, end1) = "}" /\ At(s, end) # "\""
    THEN ScanOk([t |-> "dict", v |-> <<>>], end1 + 1)
    ELSE IF At(s, end1) # "\""
    THEN ScanErr(J_ExpectingName, end1)
    ELSE object_pairs(s, end1 + 1, <<>>)

\* the `while True` loop of JSONObject; end is the index after the opening
\* quote of the next key, pairs the dict built so far
object_pairs(s, end, pairs) ==
    LET key == scanstring(s, end) IN
    IF key.kind # "ok" THEN key
    ELSE
    LET end1 == IF At(s, key.end) # ":" THEN skip_ws(s, key.end)
                ELSE key.end IN
    IF At(s, end1) # ":" THEN ScanErr(J_ExpectingColon, end1)
    ELSE
    LET value == scan_once(s, skip_ws(s, end1 + 1)) IN
    IF value.kind = "stop" THEN ScanErr(J_ExpectingValue, value.end)
    ELSE IF value.kind = "err" THEN value
    ELSE
    LET k == key.val.v
        pairs1 == [x \in (DOMAIN pairs) \cup {k} |->
                      IF x = k THEN value.val ELSE pairs[x]]
        end2 == skip_ws(s, value.end)
    IN
    IF At(s, end2) = "}" THEN ScanOk([t |-> "dict", v |-> pairs1], end2 + 1)
    ELSE IF At(s, end2) # "," THEN ScanErr(J_ExpectingComma, end2)
    ELSE
    LET end3 == skip_ws(s, end2 + 1) IN
    IF At(s, end3) # "\"" THEN ScanErr(J_ExpectingName, end3)
    ELSE object_pairs(s, end3 + 1, pairs1)

\* str(JSONDecodeError(msg, doc, pos))
JSONDecodeError(msg, doc, pos) ==
    LET newlines == {i \in 0..(pos - 1) : doc[i + 1] = "\n"}
        lineno == Cardinality(newlines) + 1
        colno == IF newlines = {} THEN pos + 1
                 ELSE pos - (CHOOSE i \in newlines :
                                \A j \in newlines : i >= j)
    IN msg \o J_line \o str_int(lineno) \o J_column \o str_int(colno)
           \o J_char \o str_int(pos) \o J_close

\* JSONDecoder.decode(s), r being what raw_decode's scan_once came to;
\* error = "" when the document parsed
decode(s, r) ==
    IF r.kind = "stop"
    THEN [ok |-> FALSE, value |-> <<>>,
          error |-> JSONDecodeError(J_ExpectingValue, s, r.end)]
    ELSE IF r.kind = "err"
    THEN [ok |-> FALSE, value |-> <<>>,
          error |-> JSONDecodeError(r.msg, s, r.end)]
    ELSE LET end == skip_ws(s, r.end) IN
         IF end # Len(s)
         THEN [ok |-> FALSE, value |-> <<>>,
               error |-> JSONDecodeError(J_ExtraData, s, end)]
         ELSE [ok |-> TRUE, value |-> r.val, error |-> <<>>]

\* json.loads(s)
json_loads(s) == decode(s, scan_once(s, skip_ws(s, 0)))

\* ------------------------------------------------------------------------
\* services/llm.py
\* ------------------------------------------------------------------------
\* "```"
Fence == <<BQ, BQ, BQ>>

\* parse_json_strict(text): ok = FALSE stands for json.JSONDecodeError
parse_json_strict(text) ==
    LET cleaned0 == strip(text)
        cleaned1 ==
            IF startswith(cleaned0, Fence)
            THEN LET lines0 == split(cleaned0, "\n")
                     lines1 == Tail(lines0)
                     lines2 == IF lines1 # <<>>
                                  /\ strip(lines1[Len(lines1)]) = Fence
                               THEN SubSeq(lines1, 1, Len(lines1) - 1)
                               ELSE lines1
                 IN join("\n", lines2)
            ELSE cleaned0
        start == find(cleaned1, "{")
        end == rfind(cleaned1, "}") + 1
        cleaned2 == IF start >= 0 /\ end > start
                    THEN SubSeq(cleaned1, start + 1, end)
                    ELSE cleaned1
    IN json_loads(cleaned2)

\* is_retryable_error
retryable_patterns ==
    {<<"4","2","9">>,
     <<"q","u","o","t","a">>,
     <<"r","a","t","e">>,
     <<"r","e","s","o","u","r","c","e"," ","e","x","h","a","u","s","t","e","d">>,
     <<"5","0","3">>,
     <<"s","e","r","v","i","c","e"," ","u","n","a","v","a","i","l","a","b","l","e">>,
     <<"5","0","0">>,
     <<"i","n","t","e","r","n","a","l"," ","s","e","r","v","e","r"," ","e","r","r","o","r">>,
     <<"t","i","m","e","o","u","t">>,
     <<"d","e","a","d","l","i","n","e"," ","e","x","c","e","e","d","e","d">>}

is_retryable_error(error) ==
    LET error_str == lower(error) IN
    \E pattern \in retryable_patterns : Contains(error_str, pattern)

Providers == {"gemini", "anthropic"}

\* str(provider) inside an f-string
str(p) == IF p = "gemini" THEN S_gemini ELSE S_anthropic

\* what one call of client.generate_text / client.generate_vision does:
\* it raises an exception whose str() is `out`, or it returns the text `out`
SdkErrors == {E_Quota, E_Timeout, E_BadKey}
SdkTexts == {T_Object, T_Empty, T_Fenced, T_Prose, T_Plain, T_Broken}
SdkOutcomes ==
    [raised : {TRUE}, out : SdkErrors] \cup [raised : {FALSE}, out : SdkTexts]

\* config.py: Settings, the fields generate_text reads
Settings ==
    [LLM_PRIMARY : Providers, LLM_FALLBACK : Providers,
     FORCE_FALLBACK : BOOLEAN, ANTHROPIC_API_KEY : {"", "sk-ant"}]

\* config.py 12-19: the defaults
DefaultSettings ==
    [LLM_PRIMARY |-> "gemini", LLM_FALLBACK |-> "anthropic",
     FORCE_FALLBACK |-> FALSE, ANTHROPIC_API_KEY |-> ""]

HTTPException(code, text) ==
    [raised |-> TRUE, status_code |-> code, detail |-> text, result |-> <<>>]
Returns(text) ==
    [raised |-> FALSE, status_code |-> 0, detail |-> <<>>, result |-> text]
\* no exception leaves the except block
NoRaise == Returns(<<>>)

\* generate_text 216-229 and 242-256: the body of a try block.  ok = FALSE:
\* an exception with message `out` reaches the except clause, either the
\* client's own or the ValueError raised for a JSONDecodeError.
json_checked(result, parsed) ==
    IF ~parsed.ok
    THEN [ok |-> FALSE, out |-> S_InvalidJSON \o parsed.error]
    ELSE [ok |-> TRUE, out |-> result]

try_provider(o, require_json) ==
    IF o.raised THEN [ok |-> FALSE, out |-> o.out]
    ELSE IF require_json THEN json_checked(o.out, parse_json_strict(o.out))
    ELSE [ok |-> TRUE, out |-> o.out]

\* generate_text 231-239: the except clause of the primary attempt
primary_except_never(primary_provider, e) ==
    NoRaise

primary_except_always(primary_provider, e) ==
    HTTPException(500,
        S_GenFailed \o str(primary_provider) \o S_ParenColon \o e)

primary_except(primary_provider, e) ==
    IF ~is_retryable_error(e)
    THEN HTTPException(500,
             S_GenFailed \o str(primary_provider) \o S_ParenColon \o e)
    ELSE NoRaise

\* generate_text 258-263: the except clause of the fallback attempt
fallback_except(primary_provider, primary_error, fallback_provider, e) ==
    HTTPException(502,
        S_AllFailed \o str(primary_provider) \o S_ParenColon
            \o primary_error \o S_DotFallback \o str(fallback_provider)
            \o S_ParenColon \o e)

\* generate_text, were a client that cannot be built to leave no client
generate_text_all_or_none(cfg, image_base64, init, first, second) ==
    LET primary_provider == IF cfg.FORCE_FALLBACK THEN cfg.LLM_FALLBACK
                            ELSE cfg.LLM_PRIMARY
        fallback_provider == IF cfg.FORCE_FALLBACK THEN cfg.LLM_PRIMARY
                             ELSE cfg.LLM_FALLBACK
        wanted == {primary_provider, fallback_provider}
        built ==
            {p \in {"gemini"} : p \in wanted /\ init[p]}
            \cup {p \in {"anthropic"} :
                     p \in wanted /\ cfg.ANTHROPIC_API_KEY # "" /\ init[p]}
        clients == IF built = wanted THEN built ELSE {}
        method == IF image_base64 THEN "generate_vision"
                  ELSE "generate_text"
        call1 == [role |-> "primary", provider |-> primary_provider,
                  method |-> method]
        call2 == [role |-> "fallback", provider |-> fallback_provider,
                  method |-> method]
        tried == primary_provider \in clients
        calls1 == IF tried THEN <<call1>> ELSE <<>>
        \* str(primary_error)
        primary_error == IF tried THEN first.out ELSE S_None
        head == [primary_provider |-> primary_provider,
                 fallback_provider |-> fallback_provider,
                 clients |-> clients]
    IN
    IF tried /\ first.ok
    THEN head @@ [calls |-> calls1, response |-> Returns(first.out)]
    ELSE IF tried /\ primary_except(primary_provider, first.out).raised
    THEN head @@ [calls |-> calls1,
                  response |-> primary_except(primary_provider, first.out)]
    ELSE IF fallback_provider \in clients
    THEN head @@ [calls |-> calls1 \o <<call2>>,
                  response |->
                      IF second.ok THEN Returns(second.out)
                      ELSE fallback_except(primary_provider, primary_error,
                               fallback_provider, second.out)]
    ELSE head @@ [calls |-> calls1,
                  response |-> HTTPException(503, S_NoProviders)]

\* generate_text(prompt, require_json, ..., image_base64) under settings
\* cfg; init[p] tells whether p's client constructor succeeds, first and
\* second what the try blocks of the primary and of the fallback attempt
\* come to when they are entered.  The response comes with the provider
\* calls made, in order.
generate_text(cfg, image_base64, init, first, second) ==
    LET primary_provider == IF cfg.FORCE_FALLBACK THEN cfg.LLM_FALLBACK
                            ELSE cfg.LLM_PRIMARY
        fallback_provider == IF cfg.FORCE_FALLBACK THEN cfg.LLM_PRIMARY
                             ELSE cfg.LLM_FALLBACK
        wanted == {primary_provider, fallback_provider}
        clients ==
            {p \in {"gemini"} : p \in wanted /\ init[p]}
            \cup {p \in {"anthropic"} :
                     p \in wanted /\ cfg.ANTHROPIC_API_KEY # "" /\ init[p]}
        method == IF image_base64 THEN "generate_vision"
                  ELSE "generate_text"
        call1 == [role |-> "primary", provider |-> primary_provider,
                  method |-> method]
        call2 == [role |-> "fallback", provider |-> fallback_provider,
                  method |-> method]
        tried == primary_provider \in clients
        calls1 == IF tried THEN <<call1>> ELSE <<>>
        \* str(primary_error)
        primary_error == IF tried THEN first.out ELSE S_None
        head == [primary_provider |-> primary_provider,
                 fallback_provider |-> fallback_provider,
                 clients |-> clients]
    IN
    IF tried /\ first.ok
    THEN head @@ [calls |-> calls1, response |-> Returns(first.out)]
    ELSE IF tried /\ primary_except(primary_provider, first.out).raised
    THEN head @@ [calls |-> calls1,
                  response |-> primary_except(primary_provider, first.out)]
    ELSE IF fallback_provider \in clients
    THEN head @@ [calls |-> calls1 \o <<call2>>,
                  response |->
                      IF second.ok THEN Returns(second.out)
                      ELSE fallback_except(primary_provider, primary_error,
                               fallback_provider, second.out)]
    ELSE head @@ [calls |-> calls1,
                  response |-> HTTPException(503, S_NoProviders)]

\* ------------------------------------------------------------------------
\* State
\* ------------------------------------------------------------------------
VARIABLES
    now,          \* datetime.now(timezone.utc), seconds
    \* circuit_breaker.py
    breaker,      \* the CircuitBreaker instance
    pc,           \* pc[c]: "idle", or "invoking" while func runs for caller c
    outcome,      \* how the latest call ended, "pending" while it runs
    func_calls,   \* invocations of func made by the latest call
    streak,       \* consecutive failing calls since Closed with
                  \* failure_count = 0 (-1: not in such a run)
    probes,       \* consecutive successful calls since entering HalfOpen
                  \* (-1: not in such a run)
    cb_error,     \* the HTTPException the latest call raised by itself
    \* services/llm.py
    settings,     \* config.settings
    request,      \* the generate_text call being served
    gen,          \* the latest completed generate_text call
    \* rate_limiter.py
    buckets,      \* rate_limiter.buckets: key -> TokenBucket
    rl_last,      \* the latest check_rate_limit call and how it ended
    burst,        \* burst[k]: outcomes of the calls on k since its first
                  \* use, while they are cost-1 calls at the same rate with
                  \* no time elapsing (live), at most rate + 1 of them
    window,       \* window[k]: the time at which k's bucket was last seen
                  \* at 0 tokens with no window running, and what was
                  \* admitted in the 60 seconds from then on
    retry,        \* the cost of the latest call when it was rejected (0:
                  \* it was admitted), and whether a rejected attempt of
                  \* that run of calls moved last_refill forward
    \* rate_limiter.py, calls running in threads
    heap,         \* the TokenBucket objects created so far
    table,        \* rate_limiter.buckets: key -> index into heap
    thread,       \* thread[t]: the check_rate_limit call thread t is in
    admitted,     \* admitted[k]: total cost admitted for key k
    \* routers/ai.py
    ai,           \* the latest request served by an endpoint of the router
    \* middleware.py, routers/gemini.py
    mw_breaker,   \* middleware.gemini_circuit_breaker
    gem,          \* the latest request served by /api/gemini/generate
    api_requests, \* status codes of the APIRequest rows committed
    \* parse_json_strict on its own
    doc,          \* the parts a provider's text is built from
    parsed        \* what parse_json_strict made of the text

cbvars == <<breaker, pc, outcome, func_calls, streak, probes, cb_error>>
llmvars == <<settings, request, gen>>
rlvars == <<buckets, rl_last, burst, window, retry>>
rlcvars == <<heap, table, thread, admitted>>
aivars == <<ai>>
gemvars == <<mw_breaker, gem, api_requests>>
jsonvars == <<doc, parsed>>
vars == <<now, cbvars, llmvars, rlvars, rlcvars, aivars, gemvars, jsonvars>>

\* ------------------------------------------------------------------------
\* circuit_breaker.py
\* ------------------------------------------------------------------------
CLOSED == "closed"
OPEN == "open"
HALF_OPEN == "half_open"
CircuitState == {CLOSED, OPEN, HALF_OPEN}

\* last_failure_time: datetime = None
None == -1

\* CircuitBreaker.__init__
CircuitBreaker(ft, to, st) ==
    [failure_threshold |-> ft, timeout |-> to, success_threshold |-> st,
     state |-> CLOSED, failure_count |-> 0, success_count |-> 0,
     last_failure_time |-> None]

\* the module-level instance
gemini_circuit_breaker == CircuitBreaker(5, 60, 2)

\* CircuitBreaker._should_attempt_reset
_should_attempt_reset_late(self, t) ==
    IF self.last_failure_time = None
    THEN TRUE
    ELSE (t - self.last_failure_time) > self.timeout

_should_attempt_reset_never(self, t) ==
    self.last_failure_time = None

_should_attempt_reset(self, t) ==
    IF self.last_failure_time = None
    THEN TRUE
    ELSE (t - self.last_failure_time) >= self.timeout

\* CircuitBreaker._record_success
_record_success_keep(self) ==
    LET s1 == [self EXCEPT !.failure_count = 0] IN
    IF s1.state = HALF_OPEN
    THEN LET s2 == [s1 EXCEPT !.success_count = @ + 1] IN
         IF s2.success_count >= s2.success_threshold
         THEN [s2 EXCEPT !.state = CLOSED]
         ELSE s2
    ELSE s1

_record_success_half_open(self) ==
    IF self.state = HALF_OPEN
    THEN LET s2 == [self EXCEPT !.failure_count = 0,
                                !.success_count = @ + 1] IN
         IF s2.success_count >= s2.success_threshold
         THEN [s2 EXCEPT !.state = CLOSED, !.success_count = 0]
         ELSE s2
    ELSE self

_record_success_lagging(self) ==
    LET s1 == [self EXCEPT !.failure_count = 0] IN
    IF s1.state = HALF_OPEN
    THEN LET s2 == [s1 EXCEPT !.success_count = @ + 1] IN
         IF s2.success_count > s2.success_threshold
         THEN [s2 EXCEPT !.state = CLOSED, !.success_count = 0]
         ELSE s2
    ELSE s1

_record_success(self) ==
    LET s1 == [self EXCEPT !.failure_count = 0] IN
    IF s1.state = HALF_OPEN
    THEN LET s2 == [s1 EXCEPT !.success_count = @ + 1] IN
         IF s2.success_count >= s2.success_threshold
         THEN [s2 EXCEPT !.state = CLOSED, !.success_count = 0]
         ELSE s2
    ELSE s1

\* CircuitBreaker._record_failure
_record_failure_gt(self, t) ==
    LET s1 == [self EXCEPT !.failure_count = @ + 1,
                           !.last_failure_time = t,
                           !.success_count = 0] IN
    IF s1.failure_count > s1.failure_threshold
    THEN [s1 EXCEPT !.state = OPEN]
    ELSE s1

_record_failure_untimed(self, t) ==
    LET s1 == [self EXCEPT !.failure_count = @ + 1,
                           !.success_count = 0] IN
    IF s1.failure_count >= s1.failure_threshold
    THEN [s1 EXCEPT !.state = OPEN]
    ELSE s1

_record_failure(self, t) ==
    LET s1 == [self EXCEPT !.failure_count = @ + 1,
                           !.last_failure_time = t,
                           !.success_count = 0] IN
    IF s1.failure_count >= s1.failure_threshold
    THEN [s1 EXCEPT !.state = OPEN]
    ELSE s1

\* CircuitBreaker.get_status at time t
get_status(self, t) ==
    LET elapsed == IF self.last_failure_time # None
                   THEN t - self.last_failure_time ELSE 0
        remaining == self.timeout - elapsed
    IN [state |-> self.state,
        failure_count |-> self.failure_count,
        success_count |-> self.success_count,
        last_failure_time |-> self.last_failure_time,
        time_until_retry |-> IF self.state = OPEN
                             THEN IF remaining > 0 THEN remaining ELSE 0
                             ELSE 0]

\* CircuitBreaker.call 93-105 and call_async 128-140: the state check, up
\* to the invocation of func, made by a caller that is in no call
call_enter(c) ==
    /\ pc[c] = "idle"
    /\ IF breaker.state = OPEN /\ ~_should_attempt_reset(breaker, now)
       THEN \* raise HTTPException(503)
            /\ outcome' = "circuit_open"
            /\ cb_error' = HTTPException(503,
                  S_CircuitOpen \o str_int(breaker.timeout) \o S_Seconds)
            /\ func_calls' = 0
            /\ streak' = streak
            /\ probes' = IF probes = breaker.success_threshold
                         THEN -1 ELSE probes
            /\ UNCHANGED <<breaker, pc>>
       ELSE /\ breaker' = IF breaker.state = OPEN
                          THEN [breaker EXCEPT !.state = HALF_OPEN,
                                               !.success_count = 0]
                          ELSE breaker
            /\ pc' = [pc EXCEPT ![c] = "invoking"]
            /\ outcome' = "pending"
            /\ cb_error' = NoRaise
            /\ func_calls' = 1
            /\ streak' = IF breaker.state = OPEN THEN -1 ELSE streak
            /\ probes' = IF breaker.state = OPEN THEN 0
                         ELSE IF probes = breaker.success_threshold
                              THEN -1 ELSE probes
    /\ UNCHANGED <<now, llmvars, rlvars, rlcvars, aivars, gemvars, jsonvars>>

\* CircuitBreaker.call issued while no other call is in flight
call_begin(c) ==
    /\ \A d \in Callers : pc[d] = "idle"
    /\ call_enter(c)

\* CircuitBreaker.call, lines 105-107: func returned
call_returns(c) ==
    /\ pc[c] = "invoking"
    /\ breaker' = _record_success(breaker)
    /\ pc' = [pc EXCEPT ![c] = "idle"]
    /\ outcome' = "returned"
    /\ streak' = IF breaker'.state = CLOSED THEN 0 ELSE -1
    /\ probes' = IF probes >= 0 /\ probes < breaker.success_threshold
                 THEN probes + 1 ELSE -1
    /\ UNCHANGED <<now, func_calls, cb_error, llmvars, rlvars, rlcvars,
                   aivars, gemvars, jsonvars>>

\* CircuitBreaker.call, lines 108-110: func raised
call_raises(c) ==
    /\ pc[c] = "invoking"
    /\ breaker.failure_count < MaxFailureCount
    /\ breaker' = _record_failure(breaker, now)
    /\ pc' = [pc EXCEPT ![c] = "idle"]
    /\ outcome' = "raised"
    /\ streak' = IF streak >= 0 THEN streak + 1 ELSE -1
    /\ probes' = -1
    /\ UNCHANGED <<now, func_calls, cb_error, llmvars, rlvars, rlcvars,
                   aivars, gemvars, jsonvars>>

\* one second passes
Tick ==
    /\ now < breaker.timeout + MaxSlack
    /\ now' = now + 1
    /\ UNCHANGED <<cbvars, llmvars, rlvars, rlcvars, aivars, gemvars, jsonvars>>

\* ------------------------------------------------------------------------
\* rate_limiter.py
\* ------------------------------------------------------------------------
\* `elapsed / 60.0`: token counts are kept in sixtieths of a token, so that
\* the refill of a whole number of seconds is a whole number
Minute == 60

\* TokenBucket.__init__ at time t
TokenBucket(tokens_per_minute, t) ==
    [tokens_per_minute |-> tokens_per_minute,
     tokens |-> tokens_per_minute * Minute,
     last_refill |-> t]

\* TokenBucket.refill at time t
refill_double(self, t) ==
    LET elapsed == t - self.last_refill
        tokens_to_add == 2 * elapsed * self.tokens_per_minute
        cap == self.tokens_per_minute * Minute
    IN [self EXCEPT !.tokens = IF cap < @ + tokens_to_add THEN cap
                                ELSE @ + tokens_to_add,
                    !.last_refill = t]

refill_unclamped(self, t) ==
    LET elapsed == t - self.last_refill
        tokens_to_add == elapsed * self.tokens_per_minute
    IN [self EXCEPT !.tokens = @ + tokens_to_add, !.last_refill = t]

refill_whole(self, t) ==
    LET elapsed == t - self.last_refill
        tokens_to_add ==
            ((elapsed * self.tokens_per_minute) \div Minute) * Minute
        cap == self.tokens_per_minute * Minute
    IN [self EXCEPT !.tokens = IF cap < @ + tokens_to_add THEN cap
                                ELSE @ + tokens_to_add,
                    !.last_refill = t]

refill(self, t) ==
    LET elapsed == t - self.last_refill
        tokens_to_add == elapsed * self.tokens_per_minute
        cap == self.tokens_per_minute * Minute
    IN [self EXCEPT !.tokens = IF cap < @ + tokens_to_add THEN cap
                                ELSE @ + tokens_to_add,
                    !.last_refill = t]

\* TokenBucket.consume(tokens) at time t: the bucket afterwards and the
\* value returned
consume_strict(self, tokens, t) ==
    LET b == refill(self, t) IN
    IF b.tokens > tokens * Minute
    THEN [bucket |-> [b EXCEPT !.tokens = @ - tokens * Minute], ok |-> TRUE]
    ELSE [bucket |-> b, ok |-> FALSE]

consume_partial(self, tokens, t) ==
    LET b == refill(self, t) IN
    IF b.tokens >= tokens * Minute
    THEN [bucket |-> [b EXCEPT !.tokens = @ - tokens * Minute], ok |-> TRUE]
    ELSE [bucket |-> [b EXCEPT !.tokens = 0], ok |-> FALSE]

consume_overdraw(self, tokens, t) ==
    LET b == refill(self, t) IN
    [bucket |-> [b EXCEPT !.tokens = @ - tokens * Minute],
     ok |-> b.tokens >= tokens * Minute]

consume(self, tokens, t) ==
    LET b == refill(self, t) IN
    IF b.tokens >= tokens * Minute
    THEN [bucket |-> [b EXCEPT !.tokens = @ - tokens * Minute], ok |-> TRUE]
    ELSE [bucket |-> b, ok |-> FALSE]

NoBurst == [rate |-> 0, log |-> <<>>, live |-> FALSE]

\* no window is being followed for the key
NoWindow == [start |-> None, admits |-> 0, spent |-> 0]

\* no rejected call is being retried
NoRetry == [tokens |-> 0, banked |-> FALSE]

\* the window w is followed at time t: it started at most 60 seconds ago
Running(w, t) == w.start # None /\ t - w.start <= Minute

\* RateLimiter.check_rate_limit(key, tokens_per_minute, tokens)
check_rate_limit(key, tokens_per_minute, tokens) ==
    LET fresh == key \notin DOMAIN buckets
        bucket == IF fresh THEN TokenBucket(tokens_per_minute, now)
                  ELSE buckets[key]
        r == consume(bucket, tokens, now)
        how == IF r.ok THEN "admit" ELSE "reject"
    IN
    /\ buckets' = [k \in (DOMAIN buckets) \cup {key} |->
                      IF k = key THEN r.bucket ELSE buckets[k]]
    /\ rl_last' = [key |-> key, status_code |-> IF r.ok THEN 0 ELSE 429,
                   limit |-> IF r.ok THEN 0 ELSE tokens_per_minute]
    /\ burst' = [burst EXCEPT ![key] =
                    IF fresh
                    THEN [rate |-> tokens_per_minute, log |-> <<how>>,
                          live |-> tokens = 1]
                    ELSE IF @.live /\ tokens = 1
                            /\ tokens_per_minute = @.rate
                    THEN IF Len(@.log) <= @.rate
                         THEN [@ EXCEPT !.log = Append(@, how)]
                         ELSE @
                    ELSE [@ EXCEPT !.live = FALSE]]
    /\ window' = [window EXCEPT ![key] =
                     IF Running(@, now)
                     THEN IF r.ok
                          THEN [@ EXCEPT !.spent = @ + tokens,
                                         !.admits = IF tokens = 1
                                                    THEN @ + 1 ELSE @]
                          ELSE @
                     ELSE IF r.bucket.tokens = 0
                          THEN [start |-> now, admits |-> 0, spent |-> 0]
                          ELSE NoWindow]
    /\ retry' = [tokens |-> IF r.ok THEN 0 ELSE tokens,
                 banked |-> \/ retry.tokens > 0 /\ retry.banked
                            \/ ~r.ok /\ now > bucket.last_refill]
    /\ UNCHANGED <<now, cbvars, llmvars, rlcvars, gemvars, jsonvars>>

\* RLStep seconds pass
TickRL ==
    /\ now + RLStep <= MaxNow
    /\ now' = now + RLStep
    /\ burst' = [k \in Keys |-> [burst[k] EXCEPT !.live = FALSE]]
    /\ UNCHANGED <<buckets, rl_last, window, retry, cbvars, llmvars, rlcvars,
                   aivars, gemvars, jsonvars>>

\* a caller of key sends a request of cost tokens, at a time that leaves
\* the clock a minute to run; no rejected request is waiting
first_attempt(key, tokens) ==
    /\ retry.tokens = 0
    /\ now + Minute <= MaxNow
    /\ tokens <= settings.AI_RATE_LIMIT_PER_MINUTE
    /\ check_rate_limit(key, settings.AI_RATE_LIMIT_PER_MINUTE, tokens)
    /\ UNCHANGED ai

\* the caller whose request was rejected sends it again
retry_attempt(key) ==
    /\ retry.tokens > 0
    /\ rl_last.key = key
    /\ check_rate_limit(key, settings.AI_RATE_LIMIT_PER_MINUTE, retry.tokens)
    /\ UNCHANGED ai

\* ------------------------------------------------------------------------
\* rate_limiter.py: check_rate_limit called from several threads.  The
\* interpreter may switch threads between any two of: the membership test
\* of line 45, the creation and store of line 46, the `self.buckets[key]`
\* of line 48, and the consume it is followed by, which runs under the
\* bucket's own lock.  No time elapses.
\* ------------------------------------------------------------------------
\* the rate the callers of a key pass for it (one settings value per key)
RateOf(k) == IF k = "u1" THEN 1 ELSE MaxRate

NoThread == [pc |-> "idle", key |-> "", tokens |-> 0, ref |-> 0,
             status_code |-> 0]

\* line 45: thread t enters check_rate_limit(key, RateOf(key), tokens) and
\* tests `key not in self.buckets`
rlc_test(t, key, tokens) ==
    /\ thread[t].pc = "idle"
    /\ thread' = [thread EXCEPT ![t] =
                     [pc |-> IF key \notin DOMAIN table THEN "create"
                             ELSE "lookup",
                      key |-> key, tokens |-> tokens, ref |-> 0,
                      status_code |-> 0]]
    /\ UNCHANGED <<now, heap, table, admitted, cbvars, llmvars, rlvars,
                   aivars, gemvars, jsonvars>>

\* line 46: self.buckets[key] = TokenBucket(tokens_per_minute)
rlc_create(t) ==
    /\ thread[t].pc = "create"
    /\ heap' = Append(heap, TokenBucket(RateOf(thread[t].key), now))
    /\ table' = [k \in (DOMAIN table) \cup {thread[t].key} |->
                    IF k = thread[t].key THEN Len(heap) + 1 ELSE table[k]]
    /\ thread' = [thread EXCEPT ![t].pc = "lookup"]
    /\ UNCHANGED <<now, admitted, cbvars, llmvars, rlvars, aivars, gemvars,
                   jsonvars>>

\* line 48: the receiver self.buckets[key] is evaluated
rlc_lookup(t) ==
    /\ thread[t].pc = "lookup"
    /\ thread' = [thread EXCEPT ![t].pc = "consume",
                                ![t].ref = table[thread[t].key]]
    /\ UNCHANGED <<now, heap, table, admitted, cbvars, llmvars, rlvars,
                   aivars, gemvars, jsonvars>>

\* lines 48-52: consume(tokens) on that bucket, under its lock, and the
\* return or the raise of HTTPException(429)
rlc_consume(t) ==
    LET r == consume(heap[thread[t].ref], thread[t].tokens, now) IN
    /\ thread[t].pc = "consume"
    /\ heap' = [heap EXCEPT ![thread[t].ref] = r.bucket]
    /\ admitted' = [admitted EXCEPT ![thread[t].key] =
                        IF r.ok THEN @ + thread[t].tokens ELSE @]
    /\ thread' = [thread EXCEPT ![t].pc = "idle",
                                ![t].status_code = IF r.ok THEN 0 ELSE 429]
    /\ UNCHANGED <<now, table, cbvars, llmvars, rlvars, aivars, gemvars,
                   jsonvars>>

\* ------------------------------------------------------------------------
\* routers/ai.py
\* ------------------------------------------------------------------------
\* the HTTPException check_rate_limit raises (rate_limiter.py 49-52)
RateLimitExceeded(tokens_per_minute) ==
    HTTPException(429,
            <<"R", "a", "t", "e", " ", "l", "i", "m", "i", "t", " ", "e",
              "x", "c", "e", "e", "d", "e", "d", ".", " ", "M", "a", "x",
              "i", "m", "u", "m", " ">> \o str_int(tokens_per_minute) \o
            <<" ", "r", "e", "q", "u", "e", "s", "t", "s", " ", "p", "e",
              "r", " ", "m", "i", "n", "u", "t", "e", ".">>)

\* str(e) of an HTTPException e
str_exc(e) == str_int(e.status_code) \o <<":"," ">> \o e.detail

AiEndpoints ==
    {"generate_pico", "generate_summary", "validate_field", "find_metadata",
     "extract_tables", "analyze_image", "deep_analysis"}

\* the endpoints that json.loads the provider's text and build their
\* response model from it
AiJson ==
    {"generate_pico", "validate_field", "find_metadata", "extract_tables"}

\* the detail prefix of the endpoint's except clause
AiPrefix(ep) ==
    CASE ep \in {"generate_pico", "generate_summary"} ->
        <<"A", "I", " ", "g", "e", "n", "e", "r", "a", "t", "i", "o", "n",
          " ", "f", "a", "i", "l", "e", "d", ":", " ">>
      [] ep = "validate_field" ->
          <<"A", "I", " ", "v", "a", "l", "i", "d", "a", "t", "i", "o", "n",
            " ", "f", "a", "i", "l", "e", "d", ":", " ">>
      [] ep = "find_metadata" ->
          <<"A", "I", " ", "m", "e", "t", "a", "d", "a", "t", "a", " ", "e",
            "x", "t", "r", "a", "c", "t", "i", "o", "n", " ", "f", "a", "i",
            "l", "e", "d", ":", " ">>
      [] ep = "extract_tables" ->
          <<"A", "I", " ", "t", "a", "b", "l", "e", " ", "e", "x", "t", "r",
            "a", "c", "t", "i", "o", "n", " ", "f", "a", "i", "l", "e", "d",
            ":", " ">>
      [] ep = "analyze_image" ->
          <<"A", "I", " ", "i", "m", "a", "g", "e", " ", "a", "n", "a", "l",
            "y", "s", "i", "s", " ", "f", "a", "i", "l", "e", "d", ":",
            " ">>
      [] ep = "deep_analysis" ->
          <<"A", "I", " ", "d", "e", "e", "p", " ", "a", "n", "a", "l", "y",
            "s", "i", "s", " ", "f", "a", "i", "l", "e", "d", ":", " ">>

\* models.py: the fields without a default of the endpoint's response model
AiRequired(ep) ==
    CASE ep = "generate_pico" ->
        {<<"p","o","p","u","l","a","t","i","o","n">>,
         <<"i","n","t","e","r","v","e","n","t","i","o","n">>,
         <<"c","o","m","p","a","r","a","t","o","r">>,
         <<"o","u","t","c","o","m","e","s">>,
         <<"t","i","m","i","n","g">>,
         <<"s","t","u","d","y","_","t","y","p","e">>}
      [] ep = "validate_field" ->
        {<<"i","s","_","s","u","p","p","o","r","t","e","d">>,
         <<"q","u","o","t","e">>,
         <<"c","o","n","f","i","d","e","n","c","e">>}
      [] ep = "extract_tables" ->
        {<<"t","a","b","l","e","s">>}
      [] OTHER -> {}

\* the try block of an endpoint: the provider is called with outcome sdk
\* (for analyze_image after b64decode, which fails when ~image_ok), its
\* text goes through json.loads and the response model where the endpoint
\* has them.  ok = FALSE: an exception with message `out` reaches the
\* except clause.
ai_try(ep, sdk, image_ok, loaded) ==
    IF ep = "analyze_image" /\ ~image_ok
    THEN [ok |-> FALSE, out |->
        <<"I", "n", "c", "o", "r", "r", "e", "c", "t", " ", "p", "a", "d",
          "d", "i", "n", "g">>, provider_calls |-> 0]
    ELSE IF sdk.raised
    THEN [ok |-> FALSE, out |-> sdk.out, provider_calls |-> 1]
    ELSE IF ep \notin AiJson
    THEN [ok |-> TRUE, out |-> sdk.out, provider_calls |-> 1]
    ELSE IF ~loaded.ok
    THEN [ok |-> FALSE, out |-> loaded.error, provider_calls |-> 1]
    ELSE IF loaded.value.t # "dict"
    THEN [ok |-> FALSE, out |->
        <<"a", "r", "g", "u", "m", "e", "n", "t", " ", "a", "f", "t", "e",
          "r", " ", "*", "*", " ", "m", "u", "s", "t", " ", "b", "e", " ",
          "a", " ", "m", "a", "p", "p", "i", "n", "g">>, provider_calls |-> 1]
    ELSE IF ~(AiRequired(ep) \subseteq DOMAIN loaded.value.v)
    THEN [ok |-> FALSE, out |->
        <<"v", "a", "l", "i", "d", "a", "t", "i", "o", "n", " ", "e", "r",
          "r", "o", "r">>, provider_calls |-> 1]
    ELSE [ok |-> TRUE, out |-> sdk.out, provider_calls |-> 1]

\* an endpoint of the router, from the rate-limit check on: `limited` tells
\* whether check_rate_limit raised, and `error` what it raised
ai_endpoint_wrapped(ep, limited, error, attempt) ==
    IF limited
    THEN [provider_calls |-> 0,
          response |-> HTTPException(500, AiPrefix(ep) \o str_exc(error))]
    ELSE IF attempt.ok
    THEN [provider_calls |-> attempt.provider_calls,
          response |-> Returns(attempt.out)]
    ELSE [provider_calls |-> attempt.provider_calls,
          response |-> HTTPException(500, AiPrefix(ep) \o attempt.out)]

ai_endpoint(ep, limited, error, attempt) ==
    IF limited
    THEN [provider_calls |-> 0, response |-> error]
    ELSE IF attempt.ok
    THEN [provider_calls |-> attempt.provider_calls,
          response |-> Returns(attempt.out)]
    ELSE [provider_calls |-> attempt.provider_calls,
          response |-> HTTPException(500, AiPrefix(ep) \o attempt.out)]

\* f"ai:{current_user.id}" of the user whose requests are followed
AiKeys == {"u1"}

\* what the SDK does in a call made by an endpoint
AiOutcomes ==
    {[raised |-> TRUE, out |-> E_Quota], [raised |-> FALSE, out |-> T_Object],
     [raised |-> FALSE, out |-> T_Plain]}

NoAi == [endpoint |-> "", key |-> "", limited |-> FALSE,
         sdk |-> [raised |-> FALSE, out |-> <<>>],
         provider_calls |-> 0, response |-> NoRaise]

\* a request of the user with rate-limit key `key` is served by endpoint ep
AiRequest(ep, key, sdk, image_ok) ==
    LET limit == settings.AI_RATE_LIMIT_PER_MINUTE IN
    /\ check_rate_limit(key, limit, 1)
    /\ ai' = [endpoint |-> ep, key |-> key,
              limited |-> rl_last'.status_code = 429, sdk |-> sdk]
             @@ ai_endpoint(ep, rl_last'.status_code = 429,
                            RateLimitExceeded(rl_last'.limit),
                            ai_try(ep, sdk, image_ok, json_loads(sdk.out)))

\* ------------------------------------------------------------------------
\* middleware.py: CircuitBreaker, and routers/gemini.py: /api/gemini/generate
\* ------------------------------------------------------------------------
\* middleware.CircuitBreaker.__init__
middleware_CircuitBreaker(ft, to) ==
    [failure_threshold |-> ft, timeout |-> to, failures |-> 0,
     last_failure_time |-> None, state |-> "closed"]

\* middleware.gemini_circuit_breaker = CircuitBreaker()
middleware_gemini_circuit_breaker == middleware_CircuitBreaker(5, 60)

\* middleware.CircuitBreaker.call(func) at time t, func behaving as f (it
\* raises an exception with message f.out, or returns f.out): the breaker
\* afterwards, the invocations of func, and how the call ends.  rejected:
\* the exception is the breaker's own HTTPException.
middleware_call(self, t, f) ==
    IF self.state = "open" /\ ~(t - self.last_failure_time > self.timeout)
    THEN [breaker |-> self, func_calls |-> 0, ok |-> FALSE,
          rejected |-> TRUE, out |-> <<>>,
          error |-> HTTPException(503,
              <<"S", "e", "r", "v", "i", "c", "e", " ", "t", "e", "m", "p",
                "o", "r", "a", "r", "i", "l", "y", " ", "u", "n", "a", "v",
                "a", "i", "l", "a", "b", "l", "e">>)]
    ELSE LET s1 == IF self.state = "open"
                   THEN [self EXCEPT !.state = "half-open"] ELSE self
         IN IF ~f.raised
            THEN [breaker |-> IF s1.state = "half-open"
                              THEN [s1 EXCEPT !.state = "closed",
                                              !.failures = 0]
                              ELSE s1,
                  func_calls |-> 1, ok |-> TRUE, rejected |-> FALSE,
                  out |-> f.out, error |-> NoRaise]
            ELSE LET s2 == [s1 EXCEPT !.failures = @ + 1,
                                      !.last_failure_time = t]
                 IN [breaker |-> IF s2.failures >= s2.failure_threshold
                                 THEN [s2 EXCEPT !.state = "open"] ELSE s2,
                     func_calls |-> 1, ok |-> FALSE, rejected |-> FALSE,
                     out |-> f.out, error |-> NoRaise]

\* generate_content 69-82: the except clause, for the result r of the
\* breaker's call; str(e) is the message of func's exception, or the
\* str() of the breaker's HTTPException
generate_content_except(r) ==
    HTTPException(500,
            <<"G", "e", "m", "i", "n", "i", " ", "A", "P", "I", " ", "e",
              "r", "r", "o", "r", ":", " ">> \o (IF r.rejected THEN str_exc(r.error) ELSE r.out))

\* what the SDK does in a call of generate_content
GemOutcomes ==
    {[raised |-> TRUE, out |-> E_Quota], [raised |-> FALSE, out |-> T_Plain]}

NoGem == [done |-> FALSE, func_calls |-> 0, rejected |-> FALSE,
          response |-> NoRaise]

\* POST /api/gemini/generate is served, the SDK behaving as f
generate_content(key_configured, f) ==
    LET r == middleware_call(mw_breaker, now, f) IN
    /\ Len(api_requests) < MaxRows
    /\ IF ~key_configured
       THEN /\ gem' = [done |-> TRUE, func_calls |-> 0, rejected |-> FALSE,
                       response |-> HTTPException(503,
                           <<"G", "e", "m", "i", "n", "i", " ", "A", "P",
                             "I", " ", "k", "e", "y", " ", "n", "o", "t",
                             " ", "c", "o", "n", "f", "i", "g", "u", "r",
                             "e", "d">>)]
            /\ UNCHANGED <<mw_breaker, api_requests>>
       ELSE /\ mw_breaker' = r.breaker
            /\ api_requests' =
                  Append(api_requests, IF r.ok THEN 200 ELSE 500)
            /\ gem' = [done |-> TRUE, func_calls |-> r.func_calls,
                       rejected |-> r.rejected,
                       response |-> IF r.ok THEN Returns(r.out)
                                    ELSE generate_content_except(r)]
    /\ UNCHANGED <<now, cbvars, llmvars, rlvars, rlcvars, aivars, jsonvars>>

\* ------------------------------------------------------------------------
\* generate_text as a step: a caller issues a call, the call is served
\* ------------------------------------------------------------------------
NoRequest ==
    [pending |-> FALSE, require_json |-> FALSE, image_base64 |-> FALSE]

SdkBehaviours ==
    [init : [Providers -> BOOLEAN], primary : SdkOutcomes,
     fallback : SdkOutcomes]

NoCall ==
    [done |-> FALSE, require_json |-> FALSE, image_base64 |-> FALSE,
     sdk |-> [init |-> [p \in Providers |-> TRUE],
              primary |-> [raised |-> FALSE, out |-> <<>>],
              fallback |-> [raised |-> FALSE, out |-> <<>>]],
     primary_provider |-> "gemini", fallback_provider |-> "gemini",
     clients |-> {}, calls |-> <<>>, response |-> NoRaise]

\* a router calls generate_text(prompt, require_json, image_base64 = ...)
Request(require_json, image_base64) ==
    /\ ~request.pending
    /\ request' = [pending |-> TRUE, require_json |-> require_json,
                   image_base64 |-> image_base64]
    /\ gen' = NoCall
    /\ UNCHANGED <<now, settings, cbvars, rlvars, rlcvars, aivars, gemvars,
                   jsonvars>>

\* generate_text runs to its return or raise, the SDK behaving as sdk
Generate(sdk) ==
    /\ request.pending
    /\ gen' = [done |-> TRUE, require_json |-> request.require_json,
               image_base64 |-> request.image_base64, sdk |-> sdk]
              @@ generate_text(settings, request.image_base64, sdk.init,
                     try_provider(sdk.primary, request.require_json),
                     try_provider(sdk.fallback, request.require_json))
    /\ request' = [request EXCEPT !.pending = FALSE]
    /\ UNCHANGED <<now, settings, cbvars, rlvars, rlcvars, aivars, gemvars,
                   jsonvars>>

\* ------------------------------------------------------------------------
\* parse_json_strict applied to a provider's answer
\* ------------------------------------------------------------------------
ObjectTexts == {T_Object, T_Empty, D_String}
OtherTexts == {D_Number, D_Null, D_Quoted}
Leads == {<<>>, R_Here, R_Draft}
Trails == {<<>>, R_Done, R_Smile}

Docs ==
    [lead : Leads, body : ObjectTexts \cup OtherTexts, trail : Trails,
     fenced : BOOLEAN]

\* the answer: the body, inside a code fence when fenced, between the prose
Embed(d) ==
    d.lead
    \o (IF d.fenced
        THEN Fence \o S_json \o <<"\n">> \o d.body \o <<"\n">> \o Fence
        ELSE d.body)
    \o d.trail

NoParse == [done |-> FALSE, ok |-> FALSE, value |-> <<>>, error |-> <<>>]

\* parse_json_strict(text) is called on the answer
Parse ==
    /\ ~parsed.done
    /\ parsed' = [done |-> TRUE] @@ parse_json_strict(Embed(doc))
    /\ UNCHANGED <<now, doc, cbvars, llmvars, rlvars, rlcvars, aivars,
                   gemvars>>

\* the next answer arrives
Answer(d) ==
    /\ parsed.done
    /\ doc' = d
    /\ parsed' = NoParse
    /\ UNCHANGED <<now, cbvars, llmvars, rlvars, rlcvars, aivars, gemvars>>

\* ------------------------------------------------------------------------
\* Specifications
\* ------------------------------------------------------------------------
IdleCB ==
    /\ pc = [c \in Callers |-> "idle"]
    /\ outcome = "none"
    /\ func_calls = 0
    /\ streak = 0
    /\ probes = -1
    /\ cb_error = NoRaise

IdleLLM ==
    /\ request = NoRequest
    /\ gen = NoCall

IdleRL ==
    /\ buckets = <<>>
    /\ rl_last = [key |-> "", status_code |-> 0, limit |-> 0]
    /\ burst = [k \in Keys |-> NoBurst]
    /\ window = [k \in Keys |-> NoWindow]
    /\ retry = NoRetry

IdleRLC ==
    /\ heap = <<>>
    /\ table = <<>>
    /\ thread = [t \in Threads |-> NoThread]
    /\ admitted = [k \in Keys |-> 0]

IdleAI == ai = NoAi

IdleGem ==
    /\ mw_breaker = middleware_gemini_circuit_breaker
    /\ gem = NoGem
    /\ api_requests = <<>>

IdleJSON ==
    /\ doc = [lead |-> <<>>, body |-> T_Empty, trail |-> <<>>,
              fenced |-> FALSE]
    /\ parsed = NoParse

\* the components a specification leaves alone
IdleRest ==
    /\ IdleRLC
    /\ IdleAI
    /\ IdleGem
    /\ IdleJSON

\* a CircuitBreaker and its callers
InitCB ==
    /\ now = 0
    /\ \E ft \in 1..MaxFailureThreshold, to \in Timeouts,
          st \in 1..MaxSuccessThreshold :
          breaker = CircuitBreaker(ft, to, st)
    /\ IdleCB
    /\ settings = DefaultSettings
    /\ IdleLLM
    /\ IdleRL
    /\ IdleRest

NextCB ==
    \/ \E c \in Callers : call_begin(c)
    \/ \E c \in Callers : call_returns(c)
    \/ \E c \in Callers : call_raises(c)
    \/ Tick

SpecCB == InitCB /\ [][NextCB]_vars

\* generate_text under every configuration, next to the module-level breaker
InitLLM ==
    /\ now = 0
    /\ breaker = gemini_circuit_breaker
    /\ IdleCB
    /\ settings \in Settings
    /\ IdleLLM
    /\ IdleRL
    /\ IdleRest

NextLLM ==
    \/ \E require_json \in BOOLEAN, image_base64 \in BOOLEAN :
          Request(require_json, image_base64)
    \/ \E sdk \in SdkBehaviours : Generate(sdk)

SpecLLM == InitLLM /\ [][NextLLM]_vars

\* the module-level RateLimiter
InitRL ==
    /\ now = 0
    /\ breaker = gemini_circuit_breaker
    /\ IdleCB
    /\ settings = DefaultSettings
    /\ IdleLLM
    /\ IdleRL
    /\ IdleRest

NextRL ==
    \/ \E key \in RLKeys, tokens_per_minute \in 1..MaxRate,
          tokens \in 1..MaxCost :
          check_rate_limit(key, tokens_per_minute, tokens) /\ UNCHANGED ai
    \/ TickRL

SpecRL == InitRL /\ [][NextRL]_vars

\* a CircuitBreaker whose callers' calls overlap
InitCBC ==
    /\ now = 0
    /\ \E ft \in 1..MaxFailureThreshold, st \in 1..MaxSuccessThreshold :
          breaker = CircuitBreaker(ft, 2, st)
    /\ pc = [c \in Tasks |-> "idle"]
    /\ outcome = "none"
    /\ func_calls = 0
    /\ streak = 0
    /\ probes = -1
    /\ cb_error = NoRaise
    /\ settings = DefaultSettings
    /\ IdleLLM
    /\ IdleRL
    /\ IdleRest

NextCBC ==
    \/ \E c \in Tasks : call_enter(c)
    \/ \E c \in Tasks : call_returns(c)
    \/ \E c \in Tasks : call_raises(c)
    \/ Tick

SpecCBC == InitCBC /\ [][NextCBC]_vars

\* the module-level RateLimiter called from several threads
InitRLC ==
    /\ now = 0
    /\ breaker = gemini_circuit_breaker
    /\ IdleCB
    /\ settings = DefaultSettings
    /\ IdleLLM
    /\ IdleRL
    /\ IdleRest

NextRLC ==
    \/ \E t \in Threads, key \in Keys, tokens \in 1..MaxCost :
          rlc_test(t, key, tokens)
    \/ \E t \in Threads : rlc_create(t)
    \/ \E t \in Threads : rlc_lookup(t)
    \/ \E t \in Threads : rlc_consume(t)

SpecRLC == InitRLC /\ [][NextRLC]_vars

\* the endpoints of routers/ai.py in front of the module-level RateLimiter
InitAI ==
    /\ now = 0
    /\ breaker = gemini_circuit_breaker
    /\ IdleCB
    /\ \E limit \in 1..MaxRate :
          settings = DefaultSettings @@ [AI_RATE_LIMIT_PER_MINUTE |-> limit]
    /\ IdleLLM
    /\ IdleRL
    /\ IdleRest

NextAI ==
    \/ \E ep \in AiEndpoints, key \in AiKeys, sdk \in AiOutcomes,
          image_ok \in BOOLEAN :
          AiRequest(ep, key, sdk, image_ok)
    \/ TickRL

SpecAI == InitAI /\ [][NextAI]_vars

\* /api/gemini/generate and middleware.gemini_circuit_breaker
InitGem ==
    /\ now = 0
    /\ breaker = gemini_circuit_breaker
    /\ IdleCB
    /\ settings = DefaultSettings
    /\ IdleLLM
    /\ IdleRL
    /\ IdleRest

NextGem ==
    \/ \E key_configured \in BOOLEAN, f \in GemOutcomes :
          generate_content(key_configured, f)
    \/ Tick

SpecGem == InitGem /\ [][NextGem]_vars

\* parse_json_strict on answers built around JSON texts
InitJSON ==
    /\ now = 0
    /\ breaker = gemini_circuit_breaker
    /\ IdleCB
    /\ settings = DefaultSettings
    /\ IdleLLM
    /\ IdleRL
    /\ IdleRLC
    /\ IdleAI
    /\ IdleGem
    /\ doc \in Docs
    /\ parsed = NoParse

NextJSON ==
    \/ Parse
    \/ \E d \in Docs : Answer(d)

SpecJSON == InitJSON /\ [][NextJSON]_vars

\* the module-level RateLimiter and a caller who sends a rejected request
\* again until it is admitted, while the clock keeps advancing
InitRLL ==
    /\ now = 0
    /\ breaker = gemini_circuit_breaker
    /\ IdleCB
    /\ \E limit \in 1..MaxRate :
          settings = DefaultSettings @@ [AI_RATE_LIMIT_PER_MINUTE |-> limit]
    /\ IdleLLM
    /\ IdleRL
    /\ IdleRest

NextRLL ==
    \/ \E key \in RLKeys, tokens \in 1..MaxCost : first_attempt(key, tokens)
    \/ \E key \in RLKeys : retry_attempt(key)
    \/ TickRL

FairRLL ==
    /\ WF_vars(TickRL)
    /\ WF_vars(\E key \in RLKeys : retry_attempt(key))

SpecRLL == InitRLL /\ [][NextRLL]_vars /\ FairRLL

\* a CircuitBreaker under traffic that does not stop: the clock keeps
\* advancing, calls keep arriving and func comes to an end; func raises
\* during the first MaxSlack seconds only, so that the cooldown of the last
\* failure ends within the time the clock covers
InitCBL ==
    /\ now = 0
    /\ \E ft \in 1..MaxFailureThreshold, st \in 1..MaxSuccessThreshold :
          breaker = CircuitBreaker(ft, 2, st)
    /\ IdleCB
    /\ settings = DefaultSettings
    /\ IdleLLM
    /\ IdleRL
    /\ IdleRest

NextCBL ==
    \/ \E c \in Callers : call_begin(c)
    \/ \E c \in Callers : call_returns(c)
    \/ \E c \in Callers : now <= MaxSlack /\ call_raises(c)
    \/ Tick

FairCBL ==
    /\ WF_vars(Tick)
    /\ \A c \in Callers : WF_vars(call_begin(c))
    /\ \A c \in Callers : WF_vars(call_returns(c))

SpecCBL == InitCBL /\ [][NextCBL]_vars /\ FairCBL

\* ------------------------------------------------------------------------
\* Properties of CircuitBreaker (sequential calls)
\* ------------------------------------------------------------------------
\* a call by c that arrives while the circuit is Open and fewer than
\* `timeout` seconds have elapsed since the last failure
EarlyCall(c) ==
    /\ call_begin(c)
    /\ breaker.state = OPEN
    /\ breaker.last_failure_time # None
    /\ now - breaker.last_failure_time < breaker.timeout

\* a call by c that arrives while the circuit is Open and at least
\* `timeout` seconds have elapsed since the last failure
LateCall(c) ==
    /\ call_begin(c)
    /\ breaker.state = OPEN
    /\ breaker.last_failure_time # None
    /\ now - breaker.last_failure_time >= breaker.timeout

Rejected(c) ==
    /\ outcome' = "circuit_open"
    /\ pc'[c] = "idle"
    /\ func_calls' = 0
    /\ breaker' = breaker

LetThrough(c) ==
    /\ pc'[c] = "invoking"
    /\ func_calls' = 1

\* C1: starting from Closed with failure_count = 0, after failure_threshold
\* consecutive failing calls the state is Open; and a call made before
\* `timeout` seconds have elapsed since the last failure is rejected with
\* the circuit-open (503) error without func being invoked.
C1_OpensAndRejects ==
    /\ [](streak = breaker.failure_threshold => breaker.state = OPEN)
    /\ [][\A c \in Callers : EarlyCall(c) => Rejected(c)]_vars

C1_Witness ==
    /\ streak = breaker.failure_threshold
    /\ breaker.failure_threshold = MaxFailureThreshold
    /\ outcome = "circuit_open" /\ func_calls = 0

\* C2 (as claimed): in every reachable HalfOpen state, also after fewer than
\* success_threshold successes have been recorded since entering HalfOpen, a
\* single failing call leaves the breaker Open, with last_failure_time set
\* to the time of that failure.
C2_HalfOpenFailureReopens ==
    [][\A c \in Callers :
          (breaker.state = HALF_OPEN /\ call_raises(c))
              => (breaker'.state = OPEN /\ breaker'.last_failure_time = now)
      ]_vars

\* C3: when the state is Open and at least `timeout` seconds have elapsed
\* since last_failure_time, the next call sets the state to HalfOpen with
\* success_count = 0 and invokes func exactly once; with failure_threshold
\* = 2 and timeout = 60, after two failures at time t a call at t+1 is
\* rejected and a call at t+61 is let through.
C3_ProbeAfterTimeout ==
    /\ [][\A c \in Callers :
            LateCall(c) => /\ breaker'.state = HALF_OPEN
                           /\ breaker'.success_count = 0
                           /\ LetThrough(c)
         ]_vars
    /\ [](func_calls <= 1)
    /\ [][\A c \in Callers :
            ( /\ call_begin(c)
              /\ breaker.failure_threshold = 2 /\ breaker.timeout = 60
              /\ streak = 2 )
            => /\ now = breaker.last_failure_time + 1 => Rejected(c)
               /\ now = breaker.last_failure_time + 61 => LetThrough(c)
         ]_vars

C3_Witness ==
    /\ breaker.failure_threshold = 2 /\ breaker.timeout = 60
    /\ breaker.state = HALF_OPEN /\ breaker.success_count = 0
    /\ breaker.failure_count = 2
    /\ now = breaker.last_failure_time + 61
    /\ \E c \in Callers : pc[c] = "invoking"
    /\ func_calls = 1

\* C4: from HalfOpen, success_threshold consecutive successful calls close
\* the circuit, leaving state Closed with failure_count = 0 and
\* success_count = 0; after fewer than success_threshold successes the
\* breaker is still HalfOpen.
C4_ClosesAfterSuccesses ==
    /\ (probes >= 0 /\ probes < breaker.success_threshold)
          => breaker.state = HALF_OPEN
    /\ probes = breaker.success_threshold
          => /\ breaker.state = CLOSED
             /\ breaker.failure_count = 0
             /\ breaker.success_count = 0

C4_Witness ==
    /\ breaker.success_threshold = MaxSuccessThreshold
    /\ probes = breaker.success_threshold
    /\ breaker.state = CLOSED

\* ------------------------------------------------------------------------
\* Properties of generate_text
\* ------------------------------------------------------------------------
\* the latest call invoked the primary provider: its client exists
PrimaryTried == gen.done /\ gen.primary_provider \in gen.clients

\* what the primary and the fallback invocation of the latest call come to
PrimaryAttempt == try_provider(gen.sdk.primary, gen.require_json)
FallbackAttempt == try_provider(gen.sdk.fallback, gen.require_json)

FallbackInvoked == \E i \in DOMAIN gen.calls : gen.calls[i].role = "fallback"

\* the primary failed with a retryable error and the fallback, whose client
\* exists, succeeds
RetryableThenSuccess ==
    /\ PrimaryTried
    /\ ~PrimaryAttempt.ok /\ is_retryable_error(PrimaryAttempt.out)
    /\ gen.fallback_provider \in gen.clients
    /\ FallbackAttempt.ok

\* C5: when the primary provider's client exists and its invocation fails
\* with an error classified non-retryable, the fallback provider is invoked
\* zero times and the caller receives an HTTP 500 error whose detail names
\* the primary provider.
C5_FatalPrimaryNoFallback ==
    (PrimaryTried /\ ~PrimaryAttempt.ok
        /\ ~is_retryable_error(PrimaryAttempt.out))
    => /\ ~FallbackInvoked
       /\ Len(gen.calls) = 1
       /\ gen.response.raised
       /\ gen.response.status_code = 500
       /\ Contains(gen.response.detail, str(gen.primary_provider))

C5_Witness ==
    /\ PrimaryTried /\ gen.sdk.primary = [raised |-> TRUE, out |-> E_BadKey]
    /\ gen.fallback_provider \in gen.clients
    /\ gen.primary_provider # gen.fallback_provider
    /\ gen.response.status_code = 500
    /\ ~FallbackInvoked

\* C6: when the primary invocation fails with a retryable error and the
\* fallback invocation succeeds (and passes the JSON check when require_json
\* is set), the call returns the fallback provider's text and raises no
\* error.
C6_FallbackResultReturned ==
    RetryableThenSuccess
    => /\ ~gen.response.raised
       /\ gen.response.result = gen.sdk.fallback.out
       /\ FallbackInvoked

C6_Witness ==
    /\ RetryableThenSuccess
    /\ gen.require_json
    /\ gen.sdk.primary = [raised |-> TRUE, out |-> E_Quota]
    /\ gen.response = Returns(T_Fenced)

\* C7 (as claimed): each provider is invoked through its own CircuitBreaker:
\* after one generate call in which the primary fails retryably and the
\* fallback succeeds, the primary's breaker has recorded exactly one failure
\* (stated for gemini, the provider that has a breaker instance).
C7_BreakerRecordsPrimaryFailure ==
    (RetryableThenSuccess /\ gen.primary_provider = "gemini")
    => /\ breaker.failure_count = 1
       /\ breaker.last_failure_time # None

\* C8 (as claimed): with require_json set, when the primary provider returns
\* text that the strict-JSON extractor cannot parse, the failure is handled
\* as a retryable provider failure: the fallback provider (when its client
\* exists) is invoked and the parse error is not the final outcome.
C8_BadJsonFallsBack ==
    ( /\ PrimaryTried /\ gen.require_json
      /\ ~gen.sdk.primary.raised
      /\ ~parse_json_strict(gen.sdk.primary.out).ok
      /\ gen.fallback_provider \in gen.clients )
    => /\ FallbackInvoked
       /\ ~(gen.response.raised /\ gen.response.status_code = 500)

\* C9 (as claimed): whenever the call fails after at least one provider was
\* invoked, the error surfaced to the caller contains the message of every
\* provider failure that occurred during the call, whether or not a fallback
\* client is available.
C9_ErrorsPreserved ==
    (gen.done /\ gen.response.raised /\ gen.calls # <<>>)
    => /\ (PrimaryTried /\ ~PrimaryAttempt.ok)
              => Contains(gen.response.detail, PrimaryAttempt.out)
       /\ (FallbackInvoked /\ ~FallbackAttempt.ok)
              => Contains(gen.response.detail, FallbackAttempt.out)

\* ------------------------------------------------------------------------
\* Properties of RateLimiter
\* ------------------------------------------------------------------------
\* C10: for a key used for the first time with rate R, R calls of cost 1
\* made with no time elapsing are all admitted and the (R+1)-th raises the
\* rate-limit (429) error; with R = 2 three immediate calls give
\* [admit, admit, reject].
C10_BurstOfRate ==
    \A k \in Keys :
        burst[k].live =>
            /\ \A i \in 1..Len(burst[k].log) :
                  burst[k].log[i] =
                      (IF i <= burst[k].rate THEN "admit" ELSE "reject")
            /\ (Len(burst[k].log) = burst[k].rate + 1 /\ rl_last.key = k)
                  => rl_last.status_code = 429

C10_Witness ==
    /\ burst["u1"].live /\ burst["u1"].rate = 2
    /\ burst["u1"].log = <<"admit", "admit", "reject">>
    /\ rl_last = [key |-> "u1", status_code |-> 429, limit |-> 2]

\* C11: for every key whose bucket has rate R, in the 60 seconds that start
\* with the bucket at 0 tokens (the end of the 60th second included) at
\* most R requests of cost 1 are admitted whatever the arrival pattern, so
\* an (R+1)-th request in the window is rejected; the witness is a window
\* in which R requests were admitted and a further one was rejected.
C11_WindowAdmitsRate ==
    \A k \in DOMAIN buckets :
        window[k].start # None =>
            /\ window[k].admits <= buckets[k].tokens_per_minute
            /\ window[k].spent <= buckets[k].tokens_per_minute

C11_Witness ==
    /\ "u1" \in DOMAIN buckets
    /\ buckets["u1"].tokens_per_minute = 2
    /\ Running(window["u1"], now)
    /\ window["u1"].admits = 2
    /\ rl_last.key = "u1" /\ rl_last.status_code = 429

\* the tokens the bucket of `key` held after the refill of the call that
\* this step is, read back from what the call left and what it deducted
Refilled(key, tokens) ==
    buckets'[key].tokens
        + (IF rl_last'.status_code = 429 THEN 0 ELSE tokens * Minute)

\* C12: a bucket that was at 0 tokens and has seen no consumption for at
\* least 60 seconds holds exactly its capacity R after the refill of the
\* next call; and no refill leaves a bucket with more than R, however long
\* it was idle.
C12_IdleRefillsToCapacity ==
    [][\A key \in RLKeys, tpm \in 1..MaxRate, tokens \in 1..MaxCost :
          (check_rate_limit(key, tpm, tokens) /\ key \in DOMAIN buckets)
          => LET cap == buckets[key].tokens_per_minute * Minute IN
             /\ Refilled(key, tokens) <= cap
             /\ ( /\ window[key].start # None
                  /\ window[key].spent = 0
                  /\ now - window[key].start >= Minute )
                => Refilled(key, tokens) = cap
      ]_vars

C12_Witness ==
    /\ "u1" \in DOMAIN buckets
    /\ buckets["u1"].tokens_per_minute = 2
    /\ window["u1"].start # None
    /\ now - window["u1"].start >= Minute
    /\ window["u1"].admits = 0 /\ window["u1"].spent = 2
    /\ rl_last.key = "u1" /\ rl_last.status_code = 0
    /\ buckets["u1"].tokens = 0

\* C13: when the bucket holds fewer tokens than the requested cost after
\* the refill, check_rate_limit raises the 429 error and leaves the token
\* count at its post-refill value; otherwise the request is admitted and
\* the token count is the post-refill value less exactly the cost.
C13_AllOrNothing ==
    [][\A key \in RLKeys, tpm \in 1..MaxRate, tokens \in 1..MaxCost :
          check_rate_limit(key, tpm, tokens)
          => LET before == IF key \in DOMAIN buckets
                           THEN refill(buckets[key], now).tokens
                           ELSE tpm * Minute
             IN IF before < tokens * Minute
                THEN /\ rl_last'.status_code = 429
                     /\ buckets'[key].tokens = before
                ELSE /\ rl_last'.status_code = 0
                     /\ buckets'[key].tokens = before - tokens * Minute
      ]_vars

C13_Witness ==
    /\ "u1" \in DOMAIN buckets
    /\ rl_last.key = "u1" /\ rl_last.status_code = 429
    /\ buckets["u1"].tokens = Minute
    /\ buckets["u1"].last_refill = now

\* ------------------------------------------------------------------------
\* Properties of RateLimiter called from several threads
\* ------------------------------------------------------------------------
\* C14 (as claimed): for any interleaving of concurrent check_rate_limit
\* calls on the same key with no time elapsing, calls racing on the first
\* use of the key included, the total cost admitted for the key never
\* exceeds the key's capacity.
C14_AdmittedWithinCapacity ==
    \A k \in Keys : admitted[k] <= RateOf(k)

\* ------------------------------------------------------------------------
\* Properties of CircuitBreaker with overlapping calls
\* ------------------------------------------------------------------------
\* the callers whose func is running
InFlight == {c \in DOMAIN pc : pc[c] = "invoking"}

\* C15 (as claimed): the read-state / decide / invoke / record sequence is
\* mutually exclusive per breaker: while the state is HalfOpen at most one
\* invocation of func is in flight.
C15_OneProbeInFlight ==
    breaker.state = HALF_OPEN => Cardinality(InFlight) <= 1

\* C16 (as claimed): the circuit-open error raised for a call rejected e
\* seconds after the last failure (e < timeout) tells the caller to retry
\* in timeout - e seconds, the remaining cooldown.
C16_RetryAfterRemaining ==
    [][\A c \in Callers :
          EarlyCall(c)
          => /\ cb_error'.status_code = 503
             /\ cb_error'.detail =
                   S_CircuitOpen
                   \o str_int(get_status(breaker, now).time_until_retry)
                   \o S_Seconds
      ]_vars

\* ------------------------------------------------------------------------
\* Properties of the endpoints of routers/ai.py
\* ------------------------------------------------------------------------
\* C17: in every endpoint of routers/ai.py, when check_rate_limit rejects
\* the request the provider is not invoked and the caller receives the 429
\* error of check_rate_limit as it was raised.
C17_LimitedBeforeProvider ==
    (ai.endpoint # "" /\ rl_last.status_code = 429)
    => /\ ai.provider_calls = 0
       /\ ai.response =
             RateLimitExceeded(settings.AI_RATE_LIMIT_PER_MINUTE)
       /\ ai.response.status_code = 429

C17_Witness ==
    /\ ai.endpoint = "deep_analysis"
    /\ settings.AI_RATE_LIMIT_PER_MINUTE = 2
    /\ rl_last.status_code = 429 /\ rl_last.key = ai.key
    /\ ai.sdk.raised = FALSE
    /\ ai.response.status_code = 429
    /\ ai.provider_calls = 0

\* ------------------------------------------------------------------------
\* Properties of /api/gemini/generate
\* ------------------------------------------------------------------------
\* C18 (as claimed): a request that gemini_circuit_breaker.call rejects
\* because the circuit is open reaches the client with status 503.
C18_CircuitOpenIs503 ==
    (gem.done /\ gem.rejected) => gem.response.status_code = 503

\* ------------------------------------------------------------------------
\* Properties of parse_json_strict
\* ------------------------------------------------------------------------
\* C19 (as claimed): for a text built from the serialization of a JSON
\* object o with leading and trailing prose and an optional code fence
\* around it, parse_json_strict returns o; for a text that holds no JSON
\* object, it fails.
C19_RoundTrip ==
    parsed.done =>
        IF doc.body \in ObjectTexts
        THEN parsed.ok /\ parsed.value = json_loads(doc.body).value
        ELSE ~parsed.ok

\* ------------------------------------------------------------------------
\* Properties of TokenBucket
\* ------------------------------------------------------------------------
\* C20: after any sequence of check_rate_limit calls of cost >= 1 under a
\* clock that never goes back, every bucket has 0 <= tokens <= capacity.
C20_TokensWithinCapacity ==
    \A k \in DOMAIN buckets :
        /\ 0 <= buckets[k].tokens
        /\ buckets[k].tokens <= buckets[k].tokens_per_minute * Minute

C20_Witness ==
    /\ "u1" \in DOMAIN buckets
    /\ buckets["u1"].tokens = buckets["u1"].tokens_per_minute * Minute
    /\ buckets["u1"].last_refill >= Minute
    /\ rl_last.key = "u1" /\ rl_last.status_code = 429

\* ------------------------------------------------------------------------
\* Invariants of CircuitBreaker (sequential calls)
\* ------------------------------------------------------------------------
\* C21: in every reachable state, state == Open implies last_failure_time
\* is set.
C21_OpenHasFailureTime ==
    breaker.state = OPEN => breaker.last_failure_time # None

C21_Witness ==
    /\ breaker.state = OPEN
    /\ outcome = "raised"
    /\ now > 0
    /\ breaker.last_failure_time = now

\* C22: every successful invocation sets failure_count to 0 whatever the
\* state, so in Closed the circuit opens only after failure_threshold
\* failures with no success between them.
C22_SuccessResetsFailures ==
    /\ [][\A c \in Callers :
            call_returns(c) => breaker'.failure_count = 0]_vars
    /\ [][(breaker.state = CLOSED /\ breaker'.state = OPEN)
            => streak' = breaker.failure_threshold]_vars

\* a success recorded in Closed after a failure: with now < timeout the
\* circuit has never been through HalfOpen
C22_Witness ==
    /\ breaker.timeout = 60 /\ now < 60
    /\ breaker.failure_threshold = MaxFailureThreshold
    /\ breaker.last_failure_time # None
    /\ breaker.state = CLOSED
    /\ outcome = "returned"
    /\ breaker.failure_count = 0

\* C25: with thresholds >= 1 and sequential calls, in every reachable
\* state: state == Closed implies failure_count < failure_threshold;
\* success_count > 0 only while HalfOpen; and success_count <
\* success_threshold always.
C25_CountInvariants ==
    /\ breaker.state = CLOSED
          => breaker.failure_count < breaker.failure_threshold
    /\ breaker.success_count > 0 => breaker.state = HALF_OPEN
    /\ breaker.success_count < breaker.success_threshold

C25_Witness ==
    /\ breaker.state = HALF_OPEN
    /\ breaker.success_threshold = MaxSuccessThreshold
    /\ breaker.success_count = breaker.success_threshold - 1
    /\ breaker.success_count > 0
    /\ outcome = "returned"

\* ------------------------------------------------------------------------
\* Properties of middleware.CircuitBreaker behind /api/gemini/generate
\* ------------------------------------------------------------------------
\* C23 (as claimed): the breaker wired into /api/gemini/generate resets its
\* failure count to 0 on every successful call, so its circuit opens only
\* after failure_threshold consecutive failures: the failure_threshold
\* latest requests all failed.
C23_GeminiSuccessResets ==
    /\ [][api_requests' = Append(api_requests, 200)
            => mw_breaker'.failures = 0]_vars
    /\ [][(mw_breaker.state = "closed" /\ mw_breaker'.state = "open")
            => /\ Len(api_requests') >= mw_breaker.failure_threshold
               /\ \A i \in 1..mw_breaker.failure_threshold :
                     api_requests'[Len(api_requests') - i + 1] = 500]_vars

\* ------------------------------------------------------------------------
\* Properties of CircuitBreaker.call_async with overlapping calls
\* ------------------------------------------------------------------------
\* C27 (as claimed): the outcome of a call admitted before the circuit
\* opened and recorded after it opened is ignored: it changes neither
\* state, success_count nor last_failure_time.  A call that is in flight
\* while the state is Open was admitted before the circuit opened, since a
\* call arriving in Open is rejected or moves the state to HalfOpen.
C27_StaleOutcomeIgnored ==
    [][\A c \in Tasks :
          ( /\ breaker.state = OPEN
            /\ pc[c] = "invoking"
            /\ (call_returns(c) \/ call_raises(c)) )
          => /\ breaker'.state = breaker.state
             /\ breaker'.success_count = breaker.success_count
             /\ breaker'.last_failure_time = breaker.last_failure_time
      ]_vars

\* ------------------------------------------------------------------------
\* Properties of RateLimiter.check_rate_limit under changing rates
\* ------------------------------------------------------------------------
\* C28 (as claimed): the limit enforced for a key and the limit reported
\* in its rate-limit error are the tokens_per_minute passed on the current
\* call: a call on an existing key is admitted or rejected as a bucket of
\* that rate, holding the same tokens since the same last refill, admits
\* or rejects it.
C28_CurrentRateEnforced ==
    [][\A key \in RLKeys, tokens_per_minute \in 1..MaxRate,
          tokens \in 1..MaxCost :
          ( /\ key \in DOMAIN buckets
            /\ check_rate_limit(key, tokens_per_minute, tokens) )
          => LET asked == [buckets[key] EXCEPT
                              !.tokens_per_minute = tokens_per_minute]
             IN /\ (rl_last'.status_code = 0)
                      = consume(asked, tokens, now).ok
                /\ rl_last'.status_code = 429
                      => rl_last'.limit = tokens_per_minute
      ]_vars

\* ------------------------------------------------------------------------
\* Properties of generate_text: clients and invocations
\* ------------------------------------------------------------------------
\* the client of provider p can be built in the latest call: its
\* constructor does not raise and, for anthropic, the credential is set
Buildable(p) ==
    /\ gen.sdk.init[p]
    /\ p = "anthropic" => settings.ANTHROPIC_API_KEY # ""

\* C24: a provider whose client cannot be built (constructor raises, or
\* the credential is empty) does not prevent use of the other: when only
\* the fallback's client exists, the fallback is invoked and its successful
\* result is returned; when only the primary's client exists, the primary
\* is invoked.
C24_OtherProviderStillUsed ==
    gen.done =>
        /\ (~Buildable(gen.primary_provider)
                /\ Buildable(gen.fallback_provider))
              => /\ Len(gen.calls) = 1
                 /\ gen.calls[1].role = "fallback"
                 /\ gen.calls[1].provider = gen.fallback_provider
                 /\ FallbackAttempt.ok
                       => gen.response = Returns(gen.sdk.fallback.out)
        /\ (Buildable(gen.primary_provider)
                /\ ~Buildable(gen.fallback_provider))
              => /\ Len(gen.calls) = 1
                 /\ gen.calls[1].role = "primary"
                 /\ gen.calls[1].provider = gen.primary_provider

C24_Witness ==
    /\ gen.done
    /\ gen.primary_provider = "gemini" /\ ~gen.sdk.init["gemini"]
    /\ gen.fallback_provider = "anthropic" /\ Buildable("anthropic")
    /\ gen.require_json
    /\ Len(gen.calls) = 1 /\ gen.calls[1].provider = "anthropic"
    /\ gen.response = Returns(T_Object)

\* C29 (as claimed): in one call each provider is invoked at most once, the
\* primary before the fallback, and the fallback is never invoked after the
\* primary succeeded, for every configuration of LLM_PRIMARY, LLM_FALLBACK
\* and FORCE_FALLBACK, including LLM_PRIMARY == LLM_FALLBACK.
C29_EachProviderOnce ==
    gen.done =>
        /\ \A i, j \in DOMAIN gen.calls :
              i # j => gen.calls[i].provider # gen.calls[j].provider
        /\ \A i, j \in DOMAIN gen.calls :
              (gen.calls[i].role = "primary"
                  /\ gen.calls[j].role = "fallback") => i < j
        /\ (PrimaryTried /\ PrimaryAttempt.ok) => ~FallbackInvoked

\* ------------------------------------------------------------------------
\* Liveness of CircuitBreaker
\* ------------------------------------------------------------------------
\* C26: an Open breaker does not stay closed to traffic forever: if time
\* keeps advancing and calls keep arriving, some call is eventually
\* admitted to the wrapped function; and if the wrapped function succeeds
\* from then on, the breaker eventually returns to Closed.
C26_OpenEventuallyCloses ==
    /\ (breaker.state = OPEN) ~> (\E c \in Callers : pc[c] = "invoking")
    /\ (breaker.state = OPEN) ~> (breaker.state = CLOSED)

\* closed again by success_threshold probes, after failure_threshold
\* failures at the latest time func raises and a full cooldown
C26_Witness ==
    /\ breaker.failure_threshold = MaxFailureThreshold
    /\ breaker.success_threshold = MaxSuccessThreshold
    /\ breaker.last_failure_time = MaxSlack
    /\ now = breaker.last_failure_time + breaker.timeout
    /\ probes = breaker.success_threshold
    /\ breaker.state = CLOSED

\* ------------------------------------------------------------------------
\* Liveness of RateLimiter
\* ------------------------------------------------------------------------
\* the tokens bucket b holds at time t when no call is made until then
Projected(b, t) ==
    LET cap == b.tokens_per_minute * Minute
        sum == b.tokens + (t - b.last_refill) * b.tokens_per_minute
    IN IF cap < sum THEN cap ELSE sum

====
